---- MODULE Spec2Model ----
(***************************************************************************)
(* A model of the sliger command line tool (src/sliger/cli.py and its      *)
(* helpers slides_utils.py, drive_utils.py, jinja_utils.py).               *)
(*                                                                         *)
(* One process invocation is modelled: the main callback, then one of the  *)
(* five commands.  The two looping commands (jinjify, imagify) advance one *)
(* loop iteration per step.  jinjify can be run a second time with the     *)
(* same data against the deck the first run left behind.                   *)
(*                                                                         *)
(* Texts are sequences of tokens.  "{{x}}" and "{{y}}" are template        *)
(* expressions, "![image](" and ")" delimit an image placeholder, " " is   *)
(* whitespace, every other token is literal text.                          *)
(*                                                                         *)
(* A remote call ends "ok" or "HttpError" (googleapiclient's exception for *)
(* a failed request).  Reading the local image file for an upload can also *)
(* end "OSError", which no handler of the program catches.                 *)
(*                                                                         *)
(* Spec runs the commands against every deck of Decks with no             *)
(* --config-path.  SpecJinja runs main with every configuration file of    *)
(* Configs and then lets a template call the strftime helper; the custom   *)
(* functions of a configuration do not change what the templates of Decks  *)
(* render to, so the two are explored apart.                               *)
(*                                                                         *)
(* Not modelled: templates Jinja refuses to parse, exceptions of the       *)
(* network layer that are not HttpError, a text field without a            *)
(* textElements list, and the text printed under --verbose (the flag is    *)
(* kept where it changes the calls made).                                  *)
(***************************************************************************)
EXTENDS Integers, Sequences, FiniteSets, TLC

VARIABLES
    deck,           \* the remote presentation: its sequence of slides
    drive,          \* the remote file store: files uploaded by this process
    pc,             \* position of the process
    cmd,            \* the command that was invoked ("" before)
    verbose,        \* state["verbose"]
    slide_number,   \* --slide-number of delete-slide / duplicate-slide
    slide_id,       \* slide_to_delete_id / slide_to_duplicate_id
    data,           \* --data of jinjify
    slides,         \* the snapshot returned by get_presentation_slides
    i,              \* number of slides of the snapshot already looped over
    j,              \* number of text elements of the current slide looped over
    total,          \* total_changes_made / total_images_replaced
    found,          \* per run: number of records with rendered # original
    run,            \* 1 in the first run of the command, 2 in its re-run
    calls,          \* every remote call issued so far, in order
    stderr,         \* every message written to the error stream, in order
    stdout,         \* the result messages written to the output stream
    exit_code,      \* -1 while running, then the process exit status
    config,         \* --config-path and the function_map of the file it names
    jinja_env,      \* state["jinja_env"]: the globals of the Jinja environment
    formatted       \* the last call of the strftime helper and what it returned

vars == <<deck, drive, pc, cmd, verbose, slide_number, slide_id, data, slides,
          i, j, total, found, run, calls, stderr, stdout, exit_code,
          config, jinja_env, formatted>>

-----------------------------------------------------------------------------
(* Bounds *)

MaxSlides == 2

\* The longest function_map of a configuration file.
MaxEntries == 2

-----------------------------------------------------------------------------
(* Python values *)

None == "None"

\* seq[k] of Python: 0-based, negative k counts from the end.
PyIndex(seq, k) == IF k >= 0 THEN seq[k + 1] ELSE seq[Len(seq) + k + 1]

-----------------------------------------------------------------------------
(* Texts *)

TemplateVars == {"{{x}}", "{{y}}"}
Whitespace == {" "}
ImageOpen == "![image]("
ImageClose == ")"

RECURSIVE Concat(_)
Concat(seqs) == IF seqs = <<>> THEN <<>> ELSE Head(seqs) \o Concat(Tail(seqs))

RECURSIVE LStrip(_)
LStrip(s) == IF s # <<>> /\ Head(s) \in Whitespace THEN LStrip(Tail(s)) ELSE s

RECURSIVE RStrip(_)
RStrip(s) ==
    IF s # <<>> /\ s[Len(s)] \in Whitespace THEN RStrip(SubSeq(s, 1, Len(s) - 1)) ELSE s

\* str.strip()
Strip(s) == RStrip(LStrip(s))

IsPrefix(p, s) == Len(p) <= Len(s) /\ SubSeq(s, 1, Len(p)) = p

\* Every non-overlapping occurrence of old in s, left to right, becomes new.
RECURSIVE ReplaceAll(_, _, _)
ReplaceAll(s, old, new) ==
    IF s = <<>> \/ old = <<>> THEN s
    ELSE IF IsPrefix(old, s)
         THEN new \o ReplaceAll(SubSeq(s, Len(old) + 1, Len(s)), old, new)
         ELSE <<Head(s)>> \o ReplaceAll(Tail(s), old, new)

-----------------------------------------------------------------------------
(* jinja_utils.py *)

\* Jinja renders an expression to the value bound to its name, and to the
\* empty string when the name is undefined; literal text is copied.
RenderToken(t, context) ==
    IF t \in TemplateVars
    THEN IF t \in DOMAIN context THEN context[t] ELSE <<>>
    ELSE <<t>>

render_jinja_in_string(template_string, context) ==
    Concat([n \in 1..Len(template_string) |-> RenderToken(template_string[n], context)])

-----------------------------------------------------------------------------
(* The decks the process is run against *)

SlideIds == <<"s_a", "s_b", "s_c", "s_d">>
ElementIds == << <<"a1", "a2", "a3", "a4">>, <<"b1", "b2", "b3", "b4">>,
                 <<"c1", "c2", "c3", "c4">>, <<"d1", "d2", "d3", "d4">> >>
CopySlideIds == <<"s_a_copy", "s_b_copy", "s_c_copy", "s_d_copy">>
DriveIds == <<"f1", "f2", "f3", "f4", "f5", "f6", "f7", "f8">>
ImageIds == <<"img1", "img2", "img3", "img4", "img5", "img6", "img7", "img8">>

ParagraphMarker == [textRun |-> FALSE, content |-> <<>>]
TextRun(content) == [textRun |-> TRUE, content |-> content]

\* A page element.  hasShape = FALSE is an element without "shape" (an image);
\* hasText = FALSE is a shape without a "text" field.
Element(hasShape, shapeType, hasText, textElements, size, transform) ==
    [objectId |-> "", hasShape |-> hasShape, shapeType |-> shapeType,
     hasText |-> hasText, textElements |-> textElements,
     size |-> size, transform |-> transform]

TextBox(content) ==
    Element(TRUE, "TEXT_BOX", TRUE, <<ParagraphMarker, TextRun(content)>>, "size1", "transform1")
\* A text box without "size" and "transform", its text split over text runs.
BareBox(textElements) == Element(TRUE, "TEXT_BOX", TRUE, textElements, None, None)
EmptyBox == Element(TRUE, "TEXT_BOX", FALSE, <<>>, "size2", "transform2")
\* A text box whose text holds a paragraph marker and no text run.
BlankBox == Element(TRUE, "TEXT_BOX", TRUE, <<ParagraphMarker>>, "size1", "transform1")
Rectangle(content) ==
    Element(TRUE, "RECTANGLE", TRUE, <<TextRun(content)>>, "size3", "transform3")
Picture == Element(FALSE, "", FALSE, <<>>, "size4", "transform4")

\* The page elements of the slides a deck is made of.
SlideKinds ==
    << <<>>,
       <<Picture, Rectangle(<<"{{x}}">>)>>,
       <<TextBox(<<"{{x}}">>), TextBox(<<"{{x}}", "{{y}}">>), BlankBox>>,
       <<TextBox(<<"a">>), Rectangle(<<"{{y}}">>), EmptyBox, TextBox(<<" ", "{{y}}", " ">>)>>,
       <<TextBox(<<ImageOpen, "p.jpg", ImageClose>>),
         TextBox(<<ImageOpen, "q.jpg", ImageClose>>),
         TextBox(<<ImageOpen, "p.jpg", ImageClose, "b">>)>>,
       <<TextBox(<<"see", ImageOpen, "p.jpg", ImageClose>>),
         BareBox(<<TextRun(<<"{{x}}", " ">>), TextRun(<<ImageOpen, "p.jpg">>),
                   ParagraphMarker, TextRun(<<ImageClose, " ">>)>>)>> >>

MakeSlide(k, kind) ==
    [objectId |-> SlideIds[k],
     pageElements |->
        [n \in 1..Len(SlideKinds[kind]) |->
            [SlideKinds[kind][n] EXCEPT !.objectId = ElementIds[k][n]]]]

Decks ==
    UNION {{[k \in 1..n |-> MakeSlide(k, f[k])] : f \in [1..n -> 1..Len(SlideKinds)]}
           : n \in 0..MaxSlides}

\* The files of the local file system: Path(image_path).exists()
ExistingPaths == {<<"p.jpg">>}

\* The values --data can bind.
DataSets ==
    { <<>> ,
      [t \in {"{{x}}"} |-> <<"a">>],
      [t \in {"{{x}}", "{{y}}"} |-> IF t = "{{x}}" THEN <<"a">> ELSE <<"b">>] }

-----------------------------------------------------------------------------
(* slides_utils.py *)

\* The value of presentations().get(): the deck's slides, or None when the
\* request fails with an HttpError.
get_presentation_slides(outcome) ==
    IF outcome = "ok" THEN [none |-> FALSE, value |-> deck]
    ELSE [none |-> TRUE, value |-> <<>>]

\* The commands without their test `if not slides`.
FalsyIgnored(fetched) == FALSE

\* `not slides` of Python: None and the empty list are both false.
Falsy(fetched) == fetched.none \/ fetched.value = <<>>

\* get_slide_id_by_index with `index < len(slides)`: the last slide is refused.
get_slide_id_by_index_strict(slide_list, index) ==
    IF 0 < index /\ index < Len(slide_list)
    THEN PyIndex(slide_list, index - 1).objectId
    ELSE None

get_slide_id_by_index(slide_list, index) ==
    IF 0 < index /\ index <= Len(slide_list)
    THEN PyIndex(slide_list, index - 1).objectId
    ELSE None

IsTextBox(el) == el.hasShape /\ el.shapeType = "TEXT_BOX"

\* get_text_elements_from_slide without the test of shapeType.
get_text_elements_of_any_shape(slide) ==
    SelectSeq(slide.pageElements, LAMBDA el : el.hasShape)

get_text_elements_from_slide(slide) == SelectSeq(slide.pageElements, IsTextBox)

TextElementContent(text_el) == IF text_el.textRun THEN text_el.content ELSE <<>>

\* gslides_element_to_text without .strip()
gslides_element_to_text_unstripped(el, page_object_id) ==
    IF ~el.hasText
    THEN [object_id |-> el.objectId, page_object_id |-> page_object_id, text |-> <<>>]
    ELSE [object_id |-> el.objectId, page_object_id |-> page_object_id,
          text |-> Concat([n \in 1..Len(el.textElements) |->
                              TextElementContent(el.textElements[n])])]

gslides_element_to_text(el, page_object_id) ==
    IF ~el.hasText
    THEN [object_id |-> el.objectId, page_object_id |-> page_object_id, text |-> <<>>]
    ELSE [object_id |-> el.objectId, page_object_id |-> page_object_id,
          text |-> Strip(Concat([n \in 1..Len(el.textElements) |->
                                    TextElementContent(el.textElements[n])]))]

\* A batchUpdate request.  Fields a kind of request does not carry are empty.
Request(kind, objectId, containsText, replaceText, pageObjectIds, url, size, transform) ==
    [kind |-> kind, objectId |-> objectId, containsText |-> containsText,
     matchCase |-> (kind = "replaceAllText"), replaceText |-> replaceText,
     pageObjectIds |-> pageObjectIds, url |-> url, size |-> size, transform |-> transform]

\* text_update_to_gslides_request without "pageObjectIds".
text_update_to_gslides_request_unscoped(change) ==
    Request("replaceAllText", "", change.original_text, change.rendered_text, <<>>, "", "", "")

text_update_to_gslides_request(change) ==
    Request("replaceAllText", "", change.original_text, change.rendered_text,
            <<change.page_object_id>>, "", "", "")

DeleteObject(object_id) == Request("deleteObject", object_id, <<>>, <<>>, <<>>, "", "", "")

DuplicateObject(object_id) == Request("duplicateObject", object_id, <<>>, <<>>, <<>>, "", "", "")

CreateImage(url, page_object_id, size, transform) ==
    Request("createImage", "", <<>>, <<>>, <<page_object_id>>, url, size, transform)

\* delete_slide_by_id with the request of its twin duplicate_slide_by_id.
delete_slide_by_id_duplicating(id) == <<DuplicateObject(id)>>

delete_slide_by_id(id) == <<DeleteObject(id)>>

\* duplicate_slide_by_id with the request of its twin delete_slide_by_id.
duplicate_slide_by_id_deleting(id) == <<DeleteObject(id)>>

duplicate_slide_by_id(id) == <<DuplicateObject(id)>>

-----------------------------------------------------------------------------
(* The presentation service: what an accepted batchUpdate does to the deck *)

InSeq(x, seq) == \E n \in 1..Len(seq) : seq[n] = x

IndexOf(x, seq) == CHOOSE n \in 1..Len(seq) : seq[n] = x

\* The text of a shape, its runs joined.
ShapeText(el) ==
    Concat([n \in 1..Len(el.textElements) |->
                IF el.textElements[n].textRun THEN el.textElements[n].content ELSE <<>>])

\* replaceAllText matches in the text of the shape as a whole, across its
\* runs; the text after the replacement is kept in the first run.
ReplaceInElement(el, old, new) ==
    IF el.hasShape /\ el.hasText /\ ReplaceAll(ShapeText(el), old, new) # ShapeText(el)
    THEN LET runs == {n \in 1..Len(el.textElements) : el.textElements[n].textRun}
         IN  [el EXCEPT !.textElements =
                [n \in 1..Len(el.textElements) |->
                    IF n \notin runs THEN el.textElements[n]
                    ELSE IF \A m \in runs : n <= m
                         THEN TextRun(ReplaceAll(ShapeText(el), old, new))
                         ELSE TextRun(<<>>)]]
    ELSE el

\* An empty pageObjectIds does not limit the pages the request applies to.
ReplaceInSlide(slide, r) ==
    IF r.pageObjectIds = <<>> \/ InSeq(slide.objectId, r.pageObjectIds)
    THEN [slide EXCEPT !.pageElements =
            [n \in 1..Len(slide.pageElements) |->
                ReplaceInElement(slide.pageElements[n], r.containsText, r.replaceText)]]
    ELSE slide

WithoutObject(slide, id) ==
    [slide EXCEPT !.pageElements = SelectSeq(slide.pageElements, LAMBDA el : el.objectId # id)]

CopyOfSlide(slide) ==
    LET k == IndexOf(slide.objectId, SlideIds)
    IN [objectId |-> CopySlideIds[k],
        pageElements |-> [n \in 1..Len(slide.pageElements) |->
            [slide.pageElements[n] EXCEPT !.objectId = ElementIds[Len(ElementIds)][n]]]]

RECURSIVE DuplicateIn(_, _)
DuplicateIn(d, id) ==
    IF d = <<>> THEN <<>>
    ELSE IF Head(d).objectId = id
         THEN <<Head(d), CopyOfSlide(Head(d))>> \o Tail(d)
         ELSE <<Head(d)>> \o DuplicateIn(Tail(d), id)

NewImage(r) ==
    [Picture EXCEPT !.objectId = ImageIds[IndexOf(r.url, DriveIds)], !.size = r.size, !.transform = r.transform]

AddImage(slide, r) ==
    IF InSeq(slide.objectId, r.pageObjectIds)
    THEN [slide EXCEPT !.pageElements = Append(@, NewImage(r))]
    ELSE slide

ApplyRequest(d, r) ==
    CASE r.kind = "replaceAllText" -> [n \in 1..Len(d) |-> ReplaceInSlide(d[n], r)]
      [] r.kind = "deleteObject" ->
            LET kept == SelectSeq(d, LAMBDA s : s.objectId # r.objectId)
            IN [n \in 1..Len(kept) |-> WithoutObject(kept[n], r.objectId)]
      [] r.kind = "duplicateObject" -> DuplicateIn(d, r.objectId)
      [] r.kind = "createImage" -> [n \in 1..Len(d) |-> AddImage(d[n], r)]

RECURSIVE ApplyBatch(_, _)
ApplyBatch(d, requests) ==
    IF requests = <<>> THEN d
    ELSE ApplyBatch(ApplyRequest(d, Head(requests)), Tail(requests))

\* The deck after a batchUpdate that ended with `outcome`: a batch is applied
\* as a whole or not at all.
Submit(d, requests, outcome) == IF outcome = "ok" THEN ApplyBatch(d, requests) ELSE d

-----------------------------------------------------------------------------
(* The log of remote calls and the output streams *)

\* One remote call: the API method, the batch it carried, how it ended, the
\* object (slide or text box) the process was working on, and the file or
\* deck the call names.
Call(api, requests, result, about, file, body) ==
    [api |-> api, requests |-> requests, result |-> result, run |-> run,
     about |-> about, file |-> file, body |-> body]

GetCall(outcome) == Call("presentations.get", <<>>, outcome, "", "", "")

BatchCall(requests, outcome, about) ==
    Call("presentations.batchUpdate", requests, outcome, about, "", "")

Message(text, about) == [text |-> text, about |-> about, run |-> run]

\* get_presentation_slides prints the HttpError it caught.
FetchMessages(outcome) == IF outcome = "ok" THEN <<>> ELSE <<Message("HttpError", "")>>

-----------------------------------------------------------------------------
(* jinja_utils.py: the environment and its strftime helper *)

\* A function reference is the sequence of the names its dots separate:
\* "math.sqrt" is <<"math", "sqrt">>, ".f" is <<"", "f">>, "len" is <<"len">>.
FunctionReferences ==
    { <<"math", "sqrt">>, <<"math", "nothing">>, <<"nomodule", "f">>, <<"len">>, <<"", "f">> }

\* The modules importlib can import, with their attributes.
Modules == [name \in {<<"math">>} |-> {"sqrt", "floor"}]

\* The attributes getattr finds on a dict, which is what globals() returns and
\* what __builtins__ is in an imported module.
DictAttributes == {"get", "items", "keys"}

Returned(value) == [raised |-> None, value |-> value]
Raised(exception) == [raised |-> exception, value |-> <<>>]

\* importlib.import_module(mod_name)
import_module(mod_name) ==
    IF mod_name = <<"">> THEN Raised("ValueError")
    ELSE IF Head(mod_name) = "" THEN Raised("TypeError")
    ELSE IF mod_name \in DOMAIN Modules THEN Returned(mod_name)
    ELSE Raised("ImportError")

import_function(function_name) ==
    IF Len(function_name) > 1
    THEN LET mod_name == SubSeq(function_name, 1, Len(function_name) - 1)
             func_name == function_name[Len(function_name)]
             mod == import_module(mod_name)
         IN  IF mod.raised # None THEN mod
             ELSE IF func_name \in Modules[mod.value] THEN Returned(function_name)
             ELSE Raised("AttributeError")
    ELSE IF function_name[1] \in DictAttributes
         THEN Returned(function_name)
         ELSE Raised("ImportError")

\* The configurations main can be started with: no --config-path, or a file
\* whose function_map binds the names FunctionNames[1], [2], ... in this order.
FunctionNames == <<"f", "g", "h", "k">>

NoConfig == [path |-> None, exists |-> FALSE, function_map |-> <<>>]

ConfigFile(references) ==
    [path |-> "config.toml", exists |-> TRUE,
     function_map |-> [n \in 1..Len(references) |->
                        [name |-> FunctionNames[n], function_name |-> references[n]]]]

Configs ==
    {NoConfig} \cup
    UNION {{ConfigFile(references) : references \in [1..n -> FunctionReferences]}
           : n \in 0..MaxEntries}

\* dict[key] = value
Put(dict, key, value) ==
    [k \in DOMAIN dict \cup {key} |-> IF k = key THEN value ELSE dict[k]]

\* dict.update(other)
Update(dict, other) ==
    [k \in DOMAIN dict \cup DOMAIN other |-> IF k \in DOMAIN other THEN other[k] ELSE dict[k]]

EmptyDict == [k \in {} |-> <<>>]

\* The loop over the entries of the function_map, inside the outer try: an
\* ImportError or AttributeError is reported and the loop goes on; any other
\* exception leaves the loop for the handler of the outer try.
RECURSIVE load_function_map(_, _)
load_function_map(entries, loaded) ==
    IF entries = <<>> THEN loaded
    ELSE LET name == Head(entries).name
             res == import_function(Head(entries).function_name)
         IN  IF res.raised = None
             THEN load_function_map(Tail(entries),
                    [loaded EXCEPT !.function_map = Put(@, name, res.value)])
             ELSE IF res.raised \in {"ImportError", "AttributeError"}
             THEN load_function_map(Tail(entries),
                    [loaded EXCEPT !.messages =
                        Append(@, Message("Warning: Could not load Jinja function", name))])
             ELSE [loaded EXCEPT !.messages =
                        Append(@, Message("Warning: Error loading Jinja config", ""))]

StrftimeHelper == <<"strftime_with_ordinal">>

\* load_jinja_environment: the globals of the environment and the warnings
\* printed while it was built.
load_jinja_environment(config_file) ==
    LET nothing == [function_map |-> EmptyDict, messages |-> <<>>]
        loaded == IF config_file.path = None THEN nothing
                  ELSE IF ~config_file.exists
                  THEN [nothing EXCEPT !.messages =
                            <<Message("Warning: Jinja config file not found", "")>>]
                  ELSE load_function_map(config_file.function_map, nothing)
    IN  [globals |-> Put(Update(EmptyDict, loaded.function_map), "strftime", StrftimeHelper),
         messages |-> loaded.messages]

Digit == <<"0", "1", "2", "3", "4", "5", "6", "7", "8", "9">>

\* f"{n:d}" for 0 <= n < 100
Decimal(n) ==
    IF n < 10 THEN <<Digit[n + 1]>> ELSE <<Digit[(n \div 10) + 1], Digit[(n % 10) + 1]>>

\* A Python bool in arithmetic: True is 1, False is 0
AsInt(b) == IF b THEN 1 ELSE 0

\* s[start::step] of Python, start >= 0 and step > 0
RECURSIVE Slice(_, _, _)
Slice(s, start, step) ==
    IF start >= Len(s) THEN <<>> ELSE <<s[start + 1]>> \o Slice(s, start + step, step)

\* ordinal without the test of the tens digit: 11 becomes "11st".
ordinal_ignoring_teens(n) ==
    Decimal(n) \o Slice(<<"t", "s", "n", "r", "h", "t", "d", "d">>,
                        (AsInt(n % 10 < 4) * n) % 10, 4)

ordinal(n) ==
    Decimal(n) \o Slice(<<"t", "s", "n", "r", "h", "t", "d", "d">>,
                        (AsInt((n \div 10) % 10 # 1) * AsInt(n % 10 < 4) * n) % 10, 4)

\* The format strings the helper is called with, character by character, and
\* the times: a struct_time with its day of the month and its month.
Formats ==
    { <<"%", "O">>, <<"%", "d">>, <<"%", "O", " ", "o", "f", " ", "%", "B">>,
      <<"%", "B", " ", "%", "O">> }

Times == [tm_mday : 1..31, tm_mon : {5}]

MonthNames == <<"January", "February", "March", "April", "May", "June", "July",
                "August", "September", "October", "November", "December">>

\* time.strftime(fmt, t) for the directives %d, %B and %%
RECURSIVE strftime(_, _)
strftime(fmt, t) ==
    IF fmt = <<>> THEN <<>>
    ELSE IF Head(fmt) = "%" /\ Len(fmt) > 1
    THEN (CASE fmt[2] = "d" -> <<Digit[(t.tm_mday \div 10) + 1], Digit[(t.tm_mday % 10) + 1]>>
            [] fmt[2] = "B" -> <<MonthNames[t.tm_mon]>>
            [] fmt[2] = "%" -> <<"%">>
            [] OTHER -> <<"%", fmt[2]>>)
         \o strftime(SubSeq(fmt, 3, Len(fmt)), t)
    ELSE <<Head(fmt)>> \o strftime(Tail(fmt), t)

strftime_with_ordinal(fmt, t) ==
    strftime(ReplaceAll(fmt, <<"%", "O">>, ordinal(t.tm_mday)), t)

NotFormatted == [fmt |-> <<>>, tm_mday |-> 0, text |-> <<>>]

-----------------------------------------------------------------------------
(* drive_utils.py *)

Outcomes == {"ok", "HttpError"}
UploadOutcomes == Outcomes \cup {"OSError"}

\* copy_file returning an id whether or not the copy was made.
copy_file_unchecked(outcome) == "deck_copy"

\* copy_file: the id of the copy, or None
copy_file(outcome) == IF outcome = "ok" THEN "deck_copy" ELSE None

CopyCall(outcome) == Call("files.copy", <<>>, outcome, "", "deck", "")

\* set_file_permissions_anyone_writer: the permission id, or None
set_file_permissions_anyone_writer(outcome) == IF outcome = "ok" THEN "permission" ELSE None

WriterCall(file_id, outcome) ==
    Call("permissions.create", <<>>, outcome, "", file_id, "anyone:writer")

\* upload_image_to_drive with the permission call's failure ignored: the id
\* is returned although the file was not made public.
upload_image_to_drive_unchecked(image_path, up, pm, about) ==
    LET img_file_id == DriveIds[Len(drive) + 1]
        create == Call("files.create", <<>>, up, about, img_file_id, image_path)
        grant == Call("permissions.create", <<>>, pm, about, img_file_id, "anyone:reader")
        caught == Message("An error occurred during image upload/permission setting", about)
    IN  IF up = "OSError"
        THEN [id |-> None, calls |-> <<>>, messages |-> <<>>, drive |-> drive, raised |-> TRUE]
        ELSE IF up = "HttpError"
        THEN [id |-> None, calls |-> <<create>>, messages |-> <<caught>>,
              drive |-> drive, raised |-> FALSE]
        ELSE [id |-> img_file_id, calls |-> <<create, grant>>, messages |-> <<>>,
              drive |-> Append(drive, [id |-> img_file_id, name |-> image_path,
                                       public |-> (pm = "ok")]),
              raised |-> FALSE]

\* upload_image_to_drive.  up is how reading and uploading the file ends, pm
\* how the permission call ends.  The result: the id returned (None on a
\* caught HttpError), the calls made, the messages printed, the file store
\* afterwards, and whether an exception left the function.
upload_image_to_drive(image_path, up, pm, about) ==
    LET img_file_id == DriveIds[Len(drive) + 1]
        create == Call("files.create", <<>>, up, about, img_file_id, image_path)
        grant == Call("permissions.create", <<>>, pm, about, img_file_id, "anyone:reader")
        caught == Message("An error occurred during image upload/permission setting", about)
    IN  IF up = "OSError"
        THEN [id |-> None, calls |-> <<>>, messages |-> <<>>, drive |-> drive, raised |-> TRUE]
        ELSE IF up = "HttpError"
        THEN [id |-> None, calls |-> <<create>>, messages |-> <<caught>>,
              drive |-> drive, raised |-> FALSE]
        ELSE IF pm = "HttpError"
        THEN [id |-> None, calls |-> <<create, grant>>, messages |-> <<caught>>,
              drive |-> Append(drive, [id |-> img_file_id, name |-> image_path, public |-> FALSE]),
              raised |-> FALSE]
        ELSE [id |-> img_file_id, calls |-> <<create, grant>>, messages |-> <<>>,
              drive |-> Append(drive, [id |-> img_file_id, name |-> image_path, public |-> TRUE]),
              raised |-> FALSE]

-----------------------------------------------------------------------------
(* cli.py *)

SlideNumbers == (0 - 1)..(MaxSlides + 1)

Init ==
    /\ deck \in Decks
    /\ drive = <<>>
    /\ pc = "init"
    /\ cmd = ""
    /\ verbose = FALSE
    /\ slide_number = 0
    /\ slide_id = None
    /\ data = <<>>
    /\ slides = <<>>
    /\ i = 0
    /\ j = 0
    /\ total = 0
    /\ found = <<0, 0>>
    /\ run = 1
    /\ calls = <<>>
    /\ stderr = <<>>
    /\ stdout = <<>>
    /\ exit_code = 0 - 1
    /\ config = NoConfig
    /\ jinja_env = EmptyDict
    /\ formatted = NotFormatted

\* raise typer.Exit(code), or the end of a command (code 0)
Exit(code) == pc' = "done" /\ exit_code' = code

\* The callback that fills `state` before the command runs.
main ==
    /\ pc = "init"
    /\ \E v \in BOOLEAN : verbose' = v
    /\ LET env == load_jinja_environment(config)
       IN  /\ jinja_env' = env.globals
           /\ stdout' = stdout \o env.messages
    /\ pc' = "ready"
    /\ UNCHANGED <<deck, drive, cmd, slide_number, slide_id, data, slides, i, j,
                   total, found, run, calls, stderr, exit_code, config, formatted>>

duplicate_presentation ==
    /\ pc = "ready"
    /\ cmd' = "duplicate_presentation"
    /\ \E copy \in Outcomes, perm \in Outcomes :
        LET presentation_copy_id == copy_file(copy)
            permission_id == set_file_permissions_anyone_writer(perm)
        IN  IF presentation_copy_id # None
            THEN /\ calls' = calls \o <<CopyCall(copy), WriterCall(presentation_copy_id, perm)>>
                 /\ stderr' = stderr \o
                        (IF permission_id = None
                         THEN <<Message("HttpError", ""),
                                Message("Failed to set permissions on the new presentation.", "")>>
                         ELSE <<>>)
                 /\ stdout' = Append(stdout, Message("new presentation", presentation_copy_id))
                 /\ Exit(0)
            ELSE /\ calls' = Append(calls, CopyCall(copy))
                 /\ stderr' = stderr \o <<Message("HttpError", ""),
                                          Message("Failed to duplicate presentation", "")>>
                 /\ stdout' = stdout
                 /\ Exit(1)
    /\ UNCHANGED <<deck, drive, verbose, config, jinja_env, formatted, slide_number, slide_id, data, slides, i, j,
                   total, found, run>>

delete_slide ==
    /\ pc = "ready"
    /\ cmd' = "delete_slide"
    /\ \E number \in SlideNumbers, fetch \in Outcomes, batch \in Outcomes :
        LET fetched == get_presentation_slides(fetch)
            slide_to_delete_id == get_slide_id_by_index(fetched.value, number)
            requests == delete_slide_by_id(slide_to_delete_id)
        IN  /\ slide_number' = number
            /\ slides' = fetched.value
            /\ IF Falsy(fetched)
               THEN /\ calls' = Append(calls, GetCall(fetch))
                    /\ stderr' = stderr \o FetchMessages(fetch)
                    /\ Exit(1)
                    /\ UNCHANGED <<deck, slide_id, stdout>>
               ELSE IF slide_to_delete_id = None
               THEN /\ calls' = Append(calls, GetCall(fetch))
                    /\ stderr' = Append(stderr, Message("doesn't exist", ""))
                    /\ slide_id' = slide_to_delete_id
                    /\ Exit(1)
                    /\ UNCHANGED <<deck, stdout>>
               ELSE /\ calls' = calls \o <<GetCall(fetch),
                                           BatchCall(requests, batch, slide_to_delete_id)>>
                    /\ deck' = Submit(deck, requests, batch)
                    /\ slide_id' = slide_to_delete_id
                    /\ IF batch = "ok"
                       THEN /\ stdout' = Append(stdout, Message("deleted successfully", ""))
                            /\ stderr' = stderr
                            /\ Exit(0)
                       ELSE /\ stderr' = Append(stderr, Message("Error deleting slide", ""))
                            /\ stdout' = stdout
                            /\ Exit(1)
    /\ UNCHANGED <<drive, verbose, config, jinja_env, formatted, data, i, j, total, found, run>>

duplicate_slide ==
    /\ pc = "ready"
    /\ cmd' = "duplicate_slide"
    /\ \E number \in SlideNumbers, fetch \in Outcomes, batch \in Outcomes, refetch \in Outcomes :
        LET slides_before == get_presentation_slides(fetch)
            slide_to_duplicate_id == get_slide_id_by_index(slides_before.value, number)
            requests == duplicate_slide_by_id(slide_to_duplicate_id)
            duplicated == Submit(deck, requests, batch)
            \* the second fetch sees the deck as the batch left it
            slides_after == IF refetch = "ok" THEN duplicated ELSE <<>>
        IN  /\ slide_number' = number
            /\ slides' = slides_before.value
            /\ IF Falsy(slides_before)
               THEN /\ calls' = Append(calls, GetCall(fetch))
                    /\ stderr' = stderr \o FetchMessages(fetch)
                    /\ Exit(1)
                    /\ UNCHANGED <<deck, slide_id, stdout>>
               ELSE IF slide_to_duplicate_id = None
               THEN /\ calls' = Append(calls, GetCall(fetch))
                    /\ stderr' = Append(stderr, Message("doesn't exist", ""))
                    /\ slide_id' = slide_to_duplicate_id
                    /\ Exit(1)
                    /\ UNCHANGED <<deck, stdout>>
               ELSE /\ deck' = duplicated
                    /\ slide_id' = slide_to_duplicate_id
                    /\ IF batch = "ok"
                       THEN /\ calls' = calls \o <<GetCall(fetch),
                                    BatchCall(requests, batch, slide_to_duplicate_id)>>
                                \o (IF verbose THEN <<GetCall(refetch)>> ELSE <<>>)
                            /\ stdout' = stdout \o <<Message("duplicated successfully", "")>>
                                \o (IF verbose /\ slides_after # <<>>
                                    THEN <<Message("Presentation now contains slides", "")>>
                                    ELSE <<>>)
                            /\ stderr' = stderr \o (IF verbose THEN FetchMessages(refetch) ELSE <<>>)
                            /\ Exit(0)
                       ELSE /\ calls' = calls \o <<GetCall(fetch),
                                    BatchCall(requests, batch, slide_to_duplicate_id)>>
                            /\ stderr' = Append(stderr, Message("Error duplicating slide", ""))
                            /\ stdout' = stdout
                            /\ Exit(1)
    /\ UNCHANGED <<drive, verbose, config, jinja_env, formatted, data, i, j, total, found, run>>

\* update_requests without the test `rendered_text != original_text`: a
\* request for every text record.
update_requests_unfiltered(slide, context) ==
    LET text_elements == get_text_elements_from_slide(slide)
        parsed_texts == [n \in 1..Len(text_elements) |->
                            gslides_element_to_text(text_elements[n], slide.objectId)]
    IN  [n \in 1..Len(parsed_texts) |->
            text_update_to_gslides_request(
                [original_text |-> parsed_texts[n].text,
                 rendered_text |-> render_jinja_in_string(parsed_texts[n].text, context),
                 page_object_id |-> parsed_texts[n].page_object_id,
                 object_id |-> parsed_texts[n].object_id])]

\* update_requests with each request put in front of the list (insert(0, ...)
\* in place of append): the requests in the reverse order of the text boxes.
update_requests_reversed(slide, context) ==
    LET text_elements == get_text_elements_from_slide(slide)
        parsed_texts == [n \in 1..Len(text_elements) |->
                            gslides_element_to_text(text_elements[n], slide.objectId)]
        changed == SelectSeq(parsed_texts,
                       LAMBDA text_info : render_jinja_in_string(text_info.text, context)
                                            # text_info.text)
    IN  [n \in 1..Len(changed) |->
            text_update_to_gslides_request(
                [original_text |-> changed[Len(changed) + 1 - n].text,
                 rendered_text |->
                    render_jinja_in_string(changed[Len(changed) + 1 - n].text, context),
                 page_object_id |-> changed[Len(changed) + 1 - n].page_object_id,
                 object_id |-> changed[Len(changed) + 1 - n].object_id])]

\* The replaceAllText requests jinjify builds for one slide: one per text
\* record whose rendered text differs from its original text.
update_requests(slide, context) ==
    LET text_elements == get_text_elements_from_slide(slide)
        parsed_texts == [n \in 1..Len(text_elements) |->
                            gslides_element_to_text(text_elements[n], slide.objectId)]
        changed == SelectSeq(parsed_texts,
                       LAMBDA text_info : render_jinja_in_string(text_info.text, context)
                                            # text_info.text)
    IN  [n \in 1..Len(changed) |->
            text_update_to_gslides_request(
                [original_text |-> changed[n].text,
                 rendered_text |-> render_jinja_in_string(changed[n].text, context),
                 page_object_id |-> changed[n].page_object_id,
                 object_id |-> changed[n].object_id])]

\* jinjify up to its loop: fetch the deck, leave when there are no slides.
jinjify_fetch(context, fetch) ==
    LET fetched == get_presentation_slides(fetch)
    IN  /\ cmd' = "jinjify"
        /\ data' = context
        /\ slides' = fetched.value
        /\ calls' = Append(calls, [GetCall(fetch) EXCEPT !.run = run'])
        /\ stderr' = stderr \o [n \in 1..Len(FetchMessages(fetch)) |->
                                    [FetchMessages(fetch)[n] EXCEPT !.run = run']]
        /\ i' = 0
        /\ total' = 0
        /\ IF Falsy(fetched)
           THEN Exit(1)
           ELSE pc' = "jinjify_loop" /\ exit_code' = 0 - 1
        /\ UNCHANGED <<deck, drive, verbose, config, jinja_env, formatted, slide_number, slide_id, j, found, stdout>>

jinjify ==
    /\ pc = "ready"
    /\ run' = run
    /\ \E context \in DataSets, fetch \in Outcomes : jinjify_fetch(context, fetch)

\* The same command line once more, after the first run ended.
jinjify_again ==
    /\ pc = "done"
    /\ cmd = "jinjify"
    /\ run = 1
    /\ run' = 2
    /\ \E fetch \in Outcomes : jinjify_fetch(data, fetch)

\* One iteration of jinjify's loop over the slides.
jinjify_slide ==
    /\ pc = "jinjify_loop"
    /\ i < Len(slides)
    /\ LET slide == slides[i + 1]
           requests == update_requests(slide, data)
       IN  /\ found' = [found EXCEPT ![run] = @ + Len(requests)]
           /\ IF requests # <<>>
              THEN \E batch \in Outcomes :
                    /\ calls' = Append(calls, BatchCall(requests, batch, slide.objectId))
                    /\ deck' = Submit(deck, requests, batch)
                    /\ IF batch = "ok"
                       THEN total' = total + Len(requests) /\ stderr' = stderr
                       ELSE /\ total' = total
                            /\ stderr' = Append(stderr,
                                            Message("Error updating text", slide.objectId))
              ELSE UNCHANGED <<calls, deck, total, stderr>>
    /\ i' = i + 1
    /\ UNCHANGED <<drive, pc, cmd, verbose, config, jinja_env, formatted, slide_number, slide_id, data, slides, j,
                   run, stdout, exit_code>>

jinjify_report ==
    /\ pc = "jinjify_loop"
    /\ i = Len(slides)
    /\ stdout' = Append(stdout, Message("Total text updates made", ""))
    /\ Exit(0)
    /\ UNCHANGED <<deck, drive, cmd, verbose, config, jinja_env, formatted, slide_number, slide_id, data, slides,
                   i, j, total, found, run, calls, stderr>>

\* re.match in place of re.fullmatch: the pattern has to match a prefix only.
image_match_prefix(text) ==
    Len(text) >= 2 /\ text[1] = ImageOpen /\ \E n \in 2..Len(text) : text[n] = ImageClose

\* re.fullmatch(r"!\[image\]\((.*)\)", text)
image_match(text) ==
    Len(text) >= 2 /\ text[1] = ImageOpen /\ text[Len(text)] = ImageClose

\* image_match.group(1)
image_group(text) == SubSeq(text, 2, Len(text) - 1)

\* imagify binds slide_index and slide_id only.
ImagifyContext == <<>>

HasTemplate(text) == \E n \in 1..Len(text) : text[n] \in TemplateVars

image_path_of(rendered_text_content) ==
    LET image_path_template == image_group(Strip(rendered_text_content))
    IN  IF HasTemplate(image_path_template)
        THEN Strip(render_jinja_in_string(image_path_template, ImagifyContext))
        ELSE Strip(image_path_template)

\* imagify without the test of Path(image_path).exists()
PathExistsUnchecked(image_path) == TRUE

\* Path(image_path).exists()
PathExists(image_path) == image_path \in ExistingPaths

\* imagify_requests without the deleteObject: the image is added and the
\* text box stays.
imagify_requests_keeping_box(text_element_shape, page_id, drive_image_id) ==
    << CreateImage(drive_image_id, page_id,
                   text_element_shape.size, text_element_shape.transform) >>

\* The batch that replaces a text box by the uploaded image.
imagify_requests(text_element_shape, page_id, drive_image_id) ==
    << CreateImage(drive_image_id, page_id,
                   text_element_shape.size, text_element_shape.transform),
       DeleteObject(text_element_shape.objectId) >>

imagify ==
    /\ pc = "ready"
    /\ cmd' = "imagify"
    /\ \E fetch \in Outcomes :
        LET fetched == get_presentation_slides(fetch)
        IN  /\ slides' = fetched.value
            /\ calls' = Append(calls, GetCall(fetch))
            /\ stderr' = stderr \o FetchMessages(fetch)
            /\ IF Falsy(fetched)
               THEN Exit(1)
               ELSE pc' = "imagify_loop" /\ exit_code' = exit_code
    /\ i' = 0
    /\ j' = 0
    /\ total' = 0
    /\ UNCHANGED <<deck, drive, verbose, config, jinja_env, formatted, slide_number, slide_id, data, found, run, stdout>>

\* One iteration of imagify's loop over the text elements of a slide.
imagify_element ==
    /\ pc = "imagify_loop"
    /\ i < Len(slides)
    /\ j < Len(get_text_elements_from_slide(slides[i + 1]))
    /\ LET slide == slides[i + 1]
           page_id == slide.objectId
           text_element_shape == get_text_elements_from_slide(slide)[j + 1]
           shape_id == text_element_shape.objectId
           original_text == gslides_element_to_text(text_element_shape, page_id).text
           rendered_text_content == render_jinja_in_string(original_text, ImagifyContext)
           image_path == image_path_of(rendered_text_content)
       IN  IF ~image_match(Strip(rendered_text_content))
           THEN /\ j' = j + 1
                /\ UNCHANGED <<deck, drive, pc, total, calls, stderr, exit_code>>
           ELSE IF ~PathExists(image_path)
           THEN /\ stderr' = Append(stderr, Message("does not exist. Skipping.", shape_id))
                /\ j' = j + 1
                /\ UNCHANGED <<deck, drive, pc, total, calls, exit_code>>
           ELSE \E up \in UploadOutcomes, pm \in Outcomes, batch \in Outcomes :
                LET uploaded == upload_image_to_drive(image_path, up, pm, shape_id)
                    requests == imagify_requests(text_element_shape, page_id, uploaded.id)
                IN  /\ drive' = uploaded.drive
                    /\ IF uploaded.raised
                       THEN /\ calls' = calls \o uploaded.calls
                            /\ stderr' = Append(stderr \o uploaded.messages,
                                                Message("Traceback", shape_id))
                            /\ Exit(1)
                            /\ UNCHANGED <<deck, total, j>>
                       ELSE IF uploaded.id = None
                       THEN /\ calls' = calls \o uploaded.calls
                            /\ stderr' = Append(stderr \o uploaded.messages,
                                                Message("Failed to upload image", shape_id))
                            /\ j' = j + 1
                            /\ UNCHANGED <<deck, total, pc, exit_code>>
                       ELSE /\ calls' = Append(calls \o uploaded.calls,
                                               BatchCall(requests, batch, shape_id))
                            /\ deck' = Submit(deck, requests, batch)
                            /\ IF batch = "ok"
                               THEN total' = total + 1 /\ stderr' = stderr
                               ELSE /\ total' = total
                                    /\ stderr' = Append(stderr,
                                          Message("Error replacing text box with image", shape_id))
                            /\ j' = j + 1
                            /\ UNCHANGED <<pc, exit_code>>
    /\ UNCHANGED <<cmd, verbose, config, jinja_env, formatted, slide_number, slide_id, data, slides, i, found, run, stdout>>

\* The end of the inner loop: on to the next slide.
imagify_slide ==
    /\ pc = "imagify_loop"
    /\ i < Len(slides)
    /\ j = Len(get_text_elements_from_slide(slides[i + 1]))
    /\ i' = i + 1
    /\ j' = 0
    /\ UNCHANGED <<deck, drive, pc, cmd, verbose, config, jinja_env, formatted, slide_number, slide_id, data, slides,
                   total, found, run, calls, stderr, stdout, exit_code>>

imagify_report ==
    /\ pc = "imagify_loop"
    /\ i = Len(slides)
    /\ stdout' = Append(stdout, Message("Total images replaced", ""))
    /\ Exit(0)
    /\ UNCHANGED <<deck, drive, cmd, verbose, config, jinja_env, formatted, slide_number, slide_id, data, slides,
                   i, j, total, found, run, calls, stderr>>

Next ==
    \/ main
    \/ duplicate_presentation
    \/ delete_slide
    \/ duplicate_slide
    \/ jinjify
    \/ jinjify_again
    \/ jinjify_slide
    \/ jinjify_report
    \/ imagify
    \/ imagify_element
    \/ imagify_slide
    \/ imagify_report

Spec == Init /\ [][Next]_vars

-----------------------------------------------------------------------------
(* The environment main builds from a configuration file, and a template
   that calls the strftime helper *)

InitJinja ==
    /\ deck = <<>>
    /\ drive = <<>>
    /\ pc = "init"
    /\ cmd = ""
    /\ verbose = FALSE
    /\ slide_number = 0
    /\ slide_id = None
    /\ data = <<>>
    /\ slides = <<>>
    /\ i = 0
    /\ j = 0
    /\ total = 0
    /\ found = <<0, 0>>
    /\ run = 1
    /\ calls = <<>>
    /\ stderr = <<>>
    /\ stdout = <<>>
    /\ exit_code = 0 - 1
    /\ config \in Configs
    /\ jinja_env = EmptyDict
    /\ formatted = NotFormatted

\* A template calls strftime(fmt, t) through the environment's globals.
render_strftime ==
    /\ pc = "ready"
    /\ "strftime" \in DOMAIN jinja_env
    /\ jinja_env["strftime"] = StrftimeHelper
    /\ \E fmt \in Formats, t \in Times :
        formatted' = [fmt |-> fmt, tm_mday |-> t.tm_mday,
                      text |-> strftime_with_ordinal(fmt, t)]
    /\ pc' = "rendered"
    /\ UNCHANGED <<deck, drive, cmd, verbose, slide_number, slide_id, data, slides, i, j,
                   total, found, run, calls, stderr, stdout, exit_code, config, jinja_env>>

NextJinja ==
    \/ main
    \/ render_strftime

SpecJinja == InitJinja /\ [][NextJinja]_vars

-----------------------------------------------------------------------------
(* Vocabulary of the properties *)

BatchUpdate == "presentations.batchUpdate"

\* The calls of the current run of the command.
ThisRun == {n \in 1..Len(calls) : calls[n].run = run}

\* The batches the current run submitted while working on `about`.
BatchesAbout(about) ==
    {n \in ThisRun : calls[n].api = BatchUpdate /\ calls[n].about = about}

\* The fetch of the current run returned a deck with slides.
Fetched == slides # <<>>

TextOf(el) == gslides_element_to_text(el, "").text

\* Positions, among a slide's page elements, of the text boxes whose rendered
\* text differs from the extracted text.
ChangedBoxes(slide, context) ==
    {n \in 1..Len(slide.pageElements) :
        /\ slide.pageElements[n].hasShape
        /\ slide.pageElements[n].shapeType = "TEXT_BOX"
        /\ render_jinja_in_string(TextOf(slide.pageElements[n]), context)
             # TextOf(slide.pageElements[n])}

\* The m-th smallest member of a set of numbers.
Nth(S, m) == CHOOSE x \in S : Cardinality({y \in S : y < x}) = m - 1

-----------------------------------------------------------------------------
(* C1 *)

\* C1: when jinjify has been run twice with the same data against the same
\* deck and the service accepted every call of both runs, the second run finds
\* no record whose rendered text differs from its original and submits no batch.
C1_SecondRunChangesNothing ==
    (/\ cmd = "jinjify" /\ run = 2 /\ pc = "done"
     /\ \A n \in 1..Len(calls) : calls[n].result = "ok")
    => /\ found[2] = 0
       /\ \A n \in ThisRun : calls[n].api # BatchUpdate

-----------------------------------------------------------------------------
(* C2 *)

\* C2: in jinjify, every slide already looped over got no batchUpdate when
\* none of its text boxes renders to a different text, and otherwise exactly
\* one batchUpdate whose requests are, in the order of the text boxes, one
\* replaceAllText per text box that renders to a different text; no other
\* batchUpdate is issued.
C2_OneBatchPerChangedSlide ==
    (cmd = "jinjify" /\ pc \in {"jinjify_loop", "done"}) =>
        /\ \A k \in 1..Len(slides) :
            LET changed == ChangedBoxes(slides[k], data)
                batches == BatchesAbout(slides[k].objectId)
            IN  IF k > i \/ changed = {}
                THEN batches = {}
                ELSE /\ Cardinality(batches) = 1
                     /\ \A n \in batches :
                         /\ Len(calls[n].requests) = Cardinality(changed)
                         /\ \A m \in 1..Len(calls[n].requests) :
                             LET r == calls[n].requests[m]
                                 original == TextOf(slides[k].pageElements[Nth(changed, m)])
                             IN  /\ r.kind = "replaceAllText"
                                 /\ r.containsText = original
                                 /\ r.replaceText = render_jinja_in_string(original, data)
                                 /\ r.replaceText # r.containsText
                                 /\ r.pageObjectIds = <<slides[k].objectId>>
        /\ \A n \in ThisRun :
            calls[n].api = BatchUpdate =>
                \E k \in 1..i : calls[n].about = slides[k].objectId

\* C2's case: a finished jinjify over two slides, one that got a batch of two
\* requests and one with text boxes that got none.
C2_Witness ==
    /\ cmd = "jinjify" /\ pc = "done" /\ exit_code = 0 /\ Len(slides) = 2
    /\ \E n \in ThisRun : calls[n].api = BatchUpdate /\ Len(calls[n].requests) = 2
    /\ \E k \in 1..2 :
        /\ get_text_elements_from_slide(slides[k]) # <<>>
        /\ BatchesAbout(slides[k].objectId) = {}

-----------------------------------------------------------------------------
(* C3 *)

\* C3: in every command but imagify, after a deck fetch or a batch submit
\* failed the same run issues no further remote call.
C3_FailureEndsCommand ==
    cmd # "imagify" =>
        \A n \in 1..Len(calls) :
            (calls[n].result # "ok" /\ calls[n].api \in {"presentations.get", BatchUpdate})
            => \A m \in (n + 1)..Len(calls) : calls[m].run # calls[n].run

-----------------------------------------------------------------------------
(* C4 *)

\* The messages that report a failed fetch, batch submit, permission grant or
\* an out-of-range slide number.
FailureReports ==
    {"HttpError", "doesn't exist", "Error deleting slide", "Error duplicating slide",
     "Error updating text", "Error replacing text box with image",
     "Failed to duplicate presentation",
     "Failed to set permissions on the new presentation."}

\* C4: a command that reported a failure ends with a non-zero exit status.
C4_FailureMeansNonZeroExit ==
    (pc = "done" /\ \E n \in 1..Len(stderr) :
                        stderr[n].run = run /\ stderr[n].text \in FailureReports)
    => exit_code # 0

-----------------------------------------------------------------------------
(* C5 *)

\* The 1-based lookup the claim describes.
OneBased(slide_list, index) ==
    IF 1 <= index /\ index <= Len(slide_list) THEN slide_list[index].objectId ELSE None

\* C5: get_slide_id_by_index returns the id of the index-th slide (counting
\* from 1) for 1 <= index <= len(slides) and None for every other index, on
\* the deck at hand and in the commands that resolved a slide number.
C5_OneBasedIndex ==
    /\ \A index \in SlideNumbers : get_slide_id_by_index(deck, index) = OneBased(deck, index)
    /\ (cmd \in {"delete_slide", "duplicate_slide"} /\ pc = "done" /\ Fetched)
        => slide_id = OneBased(slides, slide_number)

\* C5's case: slide number 0 was resolved against a deck with slides.
C5_Witness ==
    /\ cmd = "delete_slide" /\ pc = "done" /\ Fetched
    /\ slide_number = 0 /\ slide_id = None

-----------------------------------------------------------------------------
(* C6 *)

\* C6: delete-slide and duplicate-slide with a slide number outside
\* 1..number of slides report that the slide does not exist, exit non-zero,
\* submit no batchUpdate and leave the deck unchanged.
C6_UnresolvedNumber ==
    (/\ cmd \in {"delete_slide", "duplicate_slide"} /\ pc = "done"
     /\ calls[1].result = "ok"
     /\ ~(1 <= slide_number /\ slide_number <= Len(slides)))
    => /\ \E n \in 1..Len(stderr) : stderr[n].text = "doesn't exist"
       /\ exit_code # 0
       /\ \A n \in 1..Len(calls) : calls[n].api # BatchUpdate
       /\ deck = slides

-----------------------------------------------------------------------------
(* C7 *)

\* C7: delete-slide with a slide number k in 1..n issues, after the fetch,
\* exactly one batchUpdate holding exactly one request, a deleteObject of the
\* k-th fetched slide's id; when the batch is accepted every other slide is
\* still in the deck, unchanged.
C7_DeletesTheNumberedSlide ==
    (/\ cmd = "delete_slide" /\ pc = "done" /\ Fetched
     /\ 1 <= slide_number /\ slide_number <= Len(slides))
    => /\ Len(calls) = 2
       /\ calls[1].api = "presentations.get"
       /\ calls[2].api = BatchUpdate
       /\ Len(calls[2].requests) = 1
       /\ calls[2].requests[1].kind = "deleteObject"
       /\ calls[2].requests[1].objectId = slides[slide_number].objectId
       /\ \A k \in 1..Len(slides) :
            k # slide_number =>
                /\ calls[2].requests[1].objectId # slides[k].objectId
                /\ InSeq(slides[k], deck)
       /\ calls[2].result = "ok" => Len(deck) = Len(slides) - 1

\* C7's case: slide 2 of a two-slide deck was deleted.
C7_Witness ==
    /\ cmd = "delete_slide" /\ pc = "done" /\ exit_code = 0
    /\ slide_number = 2 /\ Len(slides) = 2
    /\ deck = <<slides[1]>>

-----------------------------------------------------------------------------
(* Vocabulary of the imagify properties *)

\* The text boxes of the snapshot, as <<slide position, position among the
\* slide's text boxes>>.
Boxes ==
    UNION {{<<k, m>> : m \in 1..Len(get_text_elements_from_slide(slides[k]))}
           : k \in 1..Len(slides)}

Box(p) == get_text_elements_from_slide(slides[p[1]])[p[2]]

\* imagify's loop is past the text box.
Processed(p) == p[1] <= i \/ (p[1] = i + 1 /\ p[2] <= j)

\* What imagify matches: the rendered text, stripped.
Shown(el) == Strip(render_jinja_in_string(TextOf(el), ImagifyContext))

IsPlaceholder(el) ==
    LET t == Shown(el)
    IN  Len(t) >= 2 /\ Head(t) = ImageOpen /\ t[Len(t)] = ImageClose

PlaceholderPath(el) == Strip(SubSeq(Shown(el), 2, Len(Shown(el)) - 1))

\* The calls made while working on `about`, in order.
CallsAbout(about) == SelectSeq(calls, LAMBDA c : c.about = about)

ReplaceOrder == <<"files.create", "permissions.create", BatchUpdate>>

\* The object is still on some slide of the remote deck.
OnDeck(id) ==
    \E k \in 1..Len(deck) : \E n \in 1..Len(deck[k].pageElements) :
        deck[k].pageElements[n].objectId = id

-----------------------------------------------------------------------------
(* C8 *)

\* C8: in imagify the calls made for a text box are, in this order, the
\* upload of the file, the grant of anyone/reader on the uploaded file and one
\* batchUpdate, each made only when the one before succeeded; they are made
\* only for a text box that shows a placeholder whose path exists; the batch
\* holds a createImage on the text box's slide with the text box's size and
\* transform and the uploaded file as its source, followed by a deleteObject of
\* the text box; a text box leaves the deck only when such a batch was accepted.
C8_UploadGrantThenReplace ==
    cmd = "imagify" =>
        /\ \A n \in 1..Len(calls) :
            n > 1 => \E p \in Boxes : Box(p).objectId = calls[n].about
        /\ \A p \in Boxes :
            LET el == Box(p)
                cs == CallsAbout(el.objectId)
            IN  /\ cs # <<>> => /\ IsPlaceholder(el)
                                /\ PlaceholderPath(el) \in ExistingPaths
                                /\ cs[1].body = PlaceholderPath(el)
                /\ (Processed(p) /\ IsPlaceholder(el) /\ PlaceholderPath(el) \in ExistingPaths)
                    => cs # <<>>
                /\ Len(cs) <= 3
                /\ \A q \in 1..Len(cs) :
                    /\ cs[q].api = ReplaceOrder[q]
                    /\ q < Len(cs) => cs[q].result = "ok"
                /\ (Processed(p) /\ cs # <<>> /\ Len(cs) < 3) => cs[Len(cs)].result # "ok"
                /\ Len(cs) >= 2 => /\ cs[2].file = cs[1].file
                                   /\ cs[2].body = "anyone:reader"
                /\ Len(cs) = 3 =>
                    /\ Len(cs[3].requests) = 2
                    /\ cs[3].requests[1].kind = "createImage"
                    /\ cs[3].requests[1].url = cs[1].file
                    /\ cs[3].requests[1].pageObjectIds = <<slides[p[1]].objectId>>
                    /\ cs[3].requests[1].size = el.size
                    /\ cs[3].requests[1].transform = el.transform
                    /\ cs[3].requests[2].kind = "deleteObject"
                    /\ cs[3].requests[2].objectId = el.objectId
                /\ OnDeck(el.objectId) <=> ~(Len(cs) = 3 /\ cs[3].result = "ok")

\* C8's case: a finished imagify that replaced a text box by an image.
C8_Witness ==
    /\ cmd = "imagify" /\ pc = "done" /\ exit_code = 0 /\ total = 1
    /\ \E p \in Boxes :
        /\ ~OnDeck(Box(p).objectId)
        /\ Len(CallsAbout(Box(p).objectId)) = 3
    /\ OnDeck("img1")

-----------------------------------------------------------------------------
(* C9 *)

\* C9: imagify never aborts because of one placeholder: once the deck was
\* fetched, the command ends only after its loop went over every slide, and it
\* ends with status 0.
C9_EveryPlaceholderProcessed ==
    (cmd = "imagify" /\ pc = "done" /\ Fetched) => (i = Len(slides) /\ exit_code = 0)

-----------------------------------------------------------------------------
(* C10 *)

\* The text box imagify's loop is at shows a placeholder whose path is missing.
AtMissingPath ==
    /\ cmd = "imagify" /\ pc = "imagify_loop"
    /\ <<i + 1, j + 1>> \in Boxes
    /\ IsPlaceholder(Box(<<i + 1, j + 1>>))
    /\ PlaceholderPath(Box(<<i + 1, j + 1>>)) \notin ExistingPaths

C10_Skipped ==
    cmd = "imagify" =>
        \A p \in Boxes :
            (/\ Processed(p) /\ IsPlaceholder(Box(p))
             /\ PlaceholderPath(Box(p)) \notin ExistingPaths)
            => /\ CallsAbout(Box(p).objectId) = <<>>
               /\ InSeq(Box(p), deck[p[1]].pageElements)
               /\ \E n \in 1..Len(stderr) :
                    /\ stderr[n].text = "does not exist. Skipping."
                    /\ stderr[n].about = Box(p).objectId

\* C10: a text box of imagify that shows a placeholder whose path does not
\* exist gets a warning and no upload, permission grant or batchUpdate, it
\* stays in the deck as it was, and the step over it changes nothing remote
\* and leaves the loop at the next text box.
C10_MissingPathSkipped ==
    /\ []C10_Skipped
    /\ [][AtMissingPath =>
            /\ pc' = "imagify_loop" /\ i' = i /\ j' = j + 1
            /\ calls' = calls /\ deck' = deck /\ drive' = drive
            /\ Len(stderr') = Len(stderr) + 1]_vars

\* C10's case: a missing path on the first slide was skipped and a placeholder
\* of the second slide was replaced afterwards.
C10_Witness ==
    /\ cmd = "imagify" /\ pc = "done" /\ exit_code = 0 /\ Len(slides) = 2
    /\ \E n \in 1..Len(stderr) :
        stderr[n].text = "does not exist. Skipping." /\ stderr[n].about = "a2"
    /\ \E n \in 1..Len(calls) :
        calls[n].api = BatchUpdate /\ calls[n].about = "b1" /\ calls[n].result = "ok"

-----------------------------------------------------------------------------
(* C11 *)

\* What imagify renders a text box to, before it trims the result.
Rendered(el) == render_jinja_in_string(TextOf(el), ImagifyContext)

\* The text is the pattern from its first to its last character.
IsWholePattern(t) == Len(t) >= 2 /\ t[1] = ImageOpen /\ t[Len(t)] = ImageClose

\* imagify made a call or printed a message for the object.
Touched(id) ==
    \/ CallsAbout(id) # <<>>
    \/ \E n \in 1..Len(stderr) : stderr[n].about = id

\* C11 as stated: imagify does something for a text box only when the
\* rendered text itself, with no character before or after, is the pattern.
C11_AnyEdgeCharacterDisqualifies ==
    cmd = "imagify" => \A p \in Boxes : Touched(Box(p).objectId) => IsWholePattern(Rendered(Box(p)))

\* C11: imagify matches the rendered text, with the whitespace around it
\* removed, against the whole pattern: a text box whose trimmed text has a
\* character before or after the pattern gets no upload, no batchUpdate and no
\* message and stays in the deck; a text box whose trimmed text is
\* ![image](P) is taken up once the loop is past it, and what is uploaded for
\* it is the file P.
C11_WholeTrimmedTextMatch ==
    cmd = "imagify" =>
        \A p \in Boxes :
            LET id == Box(p).objectId
                t == Strip(Rendered(Box(p)))
            IN  /\ ~IsWholePattern(t) => (~Touched(id) /\ OnDeck(id))
                /\ (IsWholePattern(t) /\ Processed(p)) =>
                    /\ Touched(id)
                    /\ CallsAbout(id) # <<>> =>
                           CallsAbout(id)[1].body = Strip(SubSeq(t, 2, Len(t) - 1))

\* C11's case: a finished imagify that replaced a text box whose rendered text
\* starts with whitespace and left alone one with a character after the
\* pattern and one with a word before it.
C11_Witness ==
    /\ cmd = "imagify" /\ pc = "done" /\ exit_code = 0
    /\ \E p \in Boxes :
        /\ Rendered(Box(p)) # Strip(Rendered(Box(p)))
        /\ ~OnDeck(Box(p).objectId)
    /\ \E p \in Boxes :
        /\ IsPrefix(<<ImageOpen>>, Rendered(Box(p)))
        /\ ~IsWholePattern(Rendered(Box(p)))
        /\ ~Touched(Box(p).objectId)
    /\ \E p \in Boxes :
        /\ Rendered(Box(p)) # <<>>
        /\ Rendered(Box(p))[Len(Rendered(Box(p)))] = ImageClose
        /\ ~IsWholePattern(Rendered(Box(p)))
        /\ ~Touched(Box(p).objectId)

-----------------------------------------------------------------------------
(* C12 *)

\* The message that puts the id of a new deck on the output stream.
NewDeckOutput == {n \in 1..Len(stdout) : stdout[n].text = "new presentation"}

\* C12: duplicate-presentation asks for the copy first; when the copy failed
\* it makes no permission call, writes no deck id to the output and exits
\* non-zero; when the copy succeeded it makes exactly one permission call, for
\* anyone/writer on the copy, and writes the copy's id to the output.
C12_GrantOnlyAfterCopy ==
    cmd = "duplicate_presentation" =>
        /\ calls # <<>>
        /\ calls[1].api = "files.copy"
        /\ \A n \in 2..Len(calls) : calls[n].api = "permissions.create"
        /\ IF calls[1].result = "ok"
           THEN /\ Len(calls) = 2
                /\ calls[2].file = "deck_copy"
                /\ calls[2].body = "anyone:writer"
                /\ \E n \in NewDeckOutput : stdout[n].about = "deck_copy"
           ELSE /\ Len(calls) = 1
                /\ NewDeckOutput = {}
                /\ pc = "done" /\ exit_code > 0

\* C12's case: a deck was copied, the grant was accepted and the id written.
C12_Witness ==
    /\ cmd = "duplicate_presentation" /\ pc = "done" /\ exit_code = 0
    /\ Len(calls) = 2 /\ calls[2].api = "permissions.create" /\ calls[2].result = "ok"
    /\ NewDeckOutput # {}

-----------------------------------------------------------------------------
(* C13 *)

Said(text) == \E n \in 1..Len(stdout) : stdout[n].text = text

\* C13: duplicate-slide with a slide number k in 1..n issues, after the fetch,
\* exactly one batchUpdate holding exactly one request, a duplicateObject of
\* the k-th fetched slide's id; when the batch is accepted the command exits
\* with status 0 and reports the duplication whatever the second fetch (made
\* under --verbose only) returns, and a failed second fetch only leaves out the
\* report of the new number of slides.
C13_OneDuplicateRefetchOptional ==
    (/\ cmd = "duplicate_slide" /\ pc = "done" /\ Fetched
     /\ 1 <= slide_number /\ slide_number <= Len(slides))
    => /\ Len(calls) >= 2
       /\ calls[1].api = "presentations.get"
       /\ {n \in 1..Len(calls) : calls[n].api = BatchUpdate} = {2}
       /\ Len(calls[2].requests) = 1
       /\ calls[2].requests[1].kind = "duplicateObject"
       /\ calls[2].requests[1].objectId = slides[slide_number].objectId
       /\ calls[2].result = "ok" =>
            /\ exit_code = 0
            /\ Said("duplicated successfully")
            /\ Len(deck) = Len(slides) + 1
            /\ Len(calls) = (IF verbose THEN 3 ELSE 2)
            /\ Len(calls) = 3 =>
                /\ calls[3].api = "presentations.get"
                /\ Said("Presentation now contains slides") <=> calls[3].result = "ok"
       /\ calls[2].result # "ok" => (Len(calls) = 2 /\ exit_code > 0 /\ deck = slides)

\* C13's case: the slide was duplicated and the second fetch failed.
C13_Witness ==
    /\ cmd = "duplicate_slide" /\ pc = "done" /\ exit_code = 0
    /\ Len(calls) = 3 /\ calls[2].result = "ok" /\ calls[3].result = "HttpError"
    /\ Len(deck) = Len(slides) + 1
    /\ Said("duplicated successfully") /\ ~Said("Presentation now contains slides")

-----------------------------------------------------------------------------
(* C14 *)

SlideCommands == {"delete_slide", "duplicate_slide", "jinjify", "imagify"}

\* C14: when the fetch a slide command starts with fails, or returns no
\* slides, the command is over with a non-zero exit status and the fetch is
\* the only remote call of the run: no batchUpdate, no upload, no grant.
C14_NoDeckNoAction ==
    cmd \in SlideCommands =>
        /\ \A n \in ThisRun :
            (calls[n].result # "ok" /\ \A m \in ThisRun : n <= m) => ~Fetched
        /\ ~Fetched =>
            /\ pc = "done" /\ exit_code > 0
            /\ Cardinality(ThisRun) = 1
            /\ \A n \in ThisRun : calls[n].api = "presentations.get"
            /\ drive = <<>>

\* C14's case: imagify against a deck with slides, the fetch failed.
C14_Witness ==
    /\ cmd = "imagify" /\ pc = "done" /\ exit_code = 1
    /\ deck # <<>> /\ ~Fetched
    /\ Len(calls) = 1 /\ calls[1].result = "HttpError"

-----------------------------------------------------------------------------
(* C15 *)

\* C15: no createImage request is submitted with a null size or a null
\* transform.
C15_ConcreteSizeAndTransform ==
    \A n \in 1..Len(calls) : \A m \in 1..Len(calls[n].requests) :
        calls[n].requests[m].kind = "createImage" =>
            /\ calls[n].requests[m].size # None
            /\ calls[n].requests[m].transform # None

-----------------------------------------------------------------------------
(* C16 *)

\* sub occurs in s
Contains(s, sub) ==
    \E a \in 0..(Len(s) - Len(sub)) : SubSeq(s, a + 1, a + Len(sub)) = sub

\* The text a page element carries, whatever its shape type.
HasText(el) == el.hasShape /\ el.hasText

\* Every request jinjify submitted in this run replaces, matching case, the
\* text of a text box of the slide the loop was at, on that slide only.
C16_Scoped ==
    cmd = "jinjify" =>
        \A n \in ThisRun : \A m \in 1..Len(calls[n].requests) :
            LET r == calls[n].requests[m]
            IN  /\ r.kind = "replaceAllText"
                /\ r.matchCase
                /\ \E k \in 1..i :
                    /\ r.pageObjectIds = <<slides[k].objectId>>
                    /\ calls[n].about = slides[k].objectId
                    /\ \E e \in 1..Len(slides[k].pageElements) :
                        /\ slides[k].pageElements[e].hasShape
                        /\ slides[k].pageElements[e].shapeType = "TEXT_BOX"
                        /\ TextOf(slides[k].pageElements[e]) = r.containsText

\* jinjify's loop is at a slide.
AtSlide == cmd = "jinjify" /\ pc = "jinjify_loop" /\ i < Len(slides)

\* The step submitted a batch and the service accepted it.
Accepted == Len(calls') = Len(calls) + 1 /\ calls'[Len(calls')].result = "ok"

\* C16: every replaceAllText request of jinjify names exactly the slide of
\* its record and matches case; the step over a slide leaves every other
\* slide of the deck as it was, and when its batch is accepted every shape of
\* that slide whose text held the original text of one of the requests has
\* another text afterwards, text box or not.
C16_OneSlideEveryShape ==
    /\ []C16_Scoped
    /\ [][AtSlide =>
            /\ Len(deck') = Len(deck)
            /\ \A k \in 1..Len(deck) :
                IF deck[k].objectId # slides[i + 1].objectId
                THEN deck'[k] = deck[k]
                ELSE Accepted =>
                    \A e \in 1..Len(deck[k].pageElements) :
                        \A m \in 1..Len(calls'[Len(calls')].requests) :
                            (/\ HasText(deck[k].pageElements[e])
                             /\ Contains(ShapeText(deck[k].pageElements[e]),
                                         calls'[Len(calls')].requests[m].containsText))
                            => ShapeText(deck'[k].pageElements[e])
                                 # ShapeText(deck[k].pageElements[e])]_vars

\* C16's case: the first of two slides with the same text boxes was
\* rendered; its second box, "{{x}}{{y}}", lost its "{{x}}" to the request
\* made for the first box, and the second slide still holds both texts.
C16_Witness ==
    /\ cmd = "jinjify" /\ pc = "jinjify_loop" /\ run = 1 /\ i = 1 /\ Len(slides) = 2
    /\ Len(calls) = 2 /\ calls[2].result = "ok"
    /\ calls[2].requests[1].containsText = <<"{{x}}">>
    /\ \E e \in 1..Len(deck[1].pageElements) :
        /\ ShapeText(slides[1].pageElements[e]) = <<"{{x}}", "{{y}}">>
        /\ ShapeText(deck[1].pageElements[e]) = <<"a", "{{y}}">>
    /\ deck[2] = slides[2]
    /\ \E e \in 1..Len(deck[2].pageElements) :
        ShapeText(deck[2].pageElements[e]) = <<"{{x}}">>

-----------------------------------------------------------------------------
(* C17 *)

\* The slides at hand: those of the remote deck and those of the snapshot.
AllSlides ==
    {deck[k] : k \in 1..Len(deck)} \cup {slides[k] : k \in 1..Len(slides)}

TextBoxesOf(slide) ==
    {slide.pageElements[n] : n \in {m \in 1..Len(slide.pageElements) :
        slide.pageElements[m].hasShape /\ slide.pageElements[m].shapeType = "TEXT_BOX"}}

\* The contents of the text runs among the first n sub-elements, in order.
RECURSIVE RunsUpTo(_, _)
RunsUpTo(textElements, n) ==
    IF n = 0 THEN <<>>
    ELSE RunsUpTo(textElements, n - 1)
         \o (IF textElements[n].textRun THEN textElements[n].content ELSE <<>>)

\* t is s without a number of whitespace characters at its start and its end.
IsTrimmed(t, s) ==
    /\ t # <<>> => (t[1] \notin Whitespace /\ t[Len(t)] \notin Whitespace)
    /\ \E a \in 0..Len(s) :
        /\ a + Len(t) <= Len(s)
        /\ SubSeq(s, a + 1, a + Len(t)) = t
        /\ \A q \in 1..Len(s) : (q <= a \/ q > a + Len(t)) => s[q] \in Whitespace

\* C17: for every text box at hand gslides_element_to_text returns a record
\* with the ids it was given; its text is empty when the shape has no text
\* field or no text run, and otherwise the contents of the text runs, in
\* order, without the whitespace at both ends; the original text of every
\* request jinjify submits is trimmed in this way.
C17_TextRecord ==
    /\ \A slide \in AllSlides : \A el \in TextBoxesOf(slide) :
        LET record == gslides_element_to_text(el, slide.objectId)
            runs == {n \in 1..Len(el.textElements) : el.textElements[n].textRun}
        IN  /\ record.object_id = el.objectId
            /\ record.page_object_id = slide.objectId
            /\ (~el.hasText \/ runs = {}) => record.text = <<>>
            /\ el.hasText => IsTrimmed(record.text, RunsUpTo(el.textElements, Len(el.textElements)))
    /\ \A n \in 1..Len(calls) : \A m \in 1..Len(calls[n].requests) :
        calls[n].requests[m].kind = "replaceAllText" =>
            IsTrimmed(calls[n].requests[m].containsText, calls[n].requests[m].containsText)

\* C17's case: jinjify went over a slide that holds a text box without a text
\* field and one whose runs read " {{y}} ", and asked to replace "{{y}}".
C17_Witness ==
    /\ cmd = "jinjify" /\ pc = "done" /\ Len(slides) = 2
    /\ \E el \in TextBoxesOf(slides[1]) : ~el.hasText
    /\ \E el \in TextBoxesOf(slides[1]) :
        el.hasText /\ RunsUpTo(el.textElements, Len(el.textElements)) = <<" ", "{{y}}", " ">>
    /\ \E n \in 1..Len(calls) :
        /\ calls[n].about = slides[1].objectId
        /\ calls[n].requests # <<>>
        /\ calls[n].requests[1].containsText = <<"{{y}}">>
    /\ \E el \in TextBoxesOf(slides[2]) :
        /\ el.hasText
        /\ \A n \in 1..Len(el.textElements) : ~el.textElements[n].textRun

-----------------------------------------------------------------------------
(* C18 *)

\* C18: for every slide at hand get_text_elements_from_slide returns the page
\* elements that have a shape of type TEXT_BOX, all of them and no other, in
\* the order they have on the slide, and the empty list for a slide without
\* page elements; imagify's inner loop runs over exactly these.
C18_TextBoxesInOrder ==
    /\ \A slide \in AllSlides :
        LET result == get_text_elements_from_slide(slide)
            boxes == {n \in 1..Len(slide.pageElements) :
                        /\ slide.pageElements[n].hasShape
                        /\ slide.pageElements[n].shapeType = "TEXT_BOX"}
        IN  /\ Len(result) = Cardinality(boxes)
            /\ \A m \in 1..Len(result) : result[m] = slide.pageElements[Nth(boxes, m)]
            /\ slide.pageElements = <<>> => result = <<>>
    /\ (cmd = "imagify" /\ pc = "imagify_loop" /\ i < Len(slides)) =>
            j <= Cardinality(TextBoxesOf(slides[i + 1]))
    /\ cmd = "imagify" =>
        \A n \in 2..Len(calls) :
            \E k \in 1..Len(slides) : \E el \in TextBoxesOf(slides[k]) :
                el.objectId = calls[n].about

\* C18's case: imagify went over a slide that holds a shapeless element and a
\* rectangle and no text box, and over a slide with a rectangle between its
\* three text boxes.
C18_Witness ==
    /\ cmd = "imagify" /\ pc = "done" /\ exit_code = 0 /\ Len(slides) = 2
    /\ Len(slides[1].pageElements) = 2
    /\ ~slides[1].pageElements[1].hasShape
    /\ get_text_elements_from_slide(slides[1]) = <<>>
    /\ Len(slides[2].pageElements) = 4
    /\ slides[2].pageElements[2].shapeType = "RECTANGLE"
    /\ get_text_elements_from_slide(slides[2])
         = <<slides[2].pageElements[1], slides[2].pageElements[3], slides[2].pageElements[4]>>

-----------------------------------------------------------------------------
(* C19 *)

\* The suffix rule of the claim.
Suffix(n) ==
    IF n % 10 = 1 /\ n # 11 THEN <<"s", "t">>
    ELSE IF n % 10 = 2 /\ n # 12 THEN <<"n", "d">>
    ELSE IF n % 10 = 3 /\ n # 13 THEN <<"r", "d">>
    ELSE <<"t", "h">>

\* C19: for every day of the month n in 1..31 ordinal(n) is the number n
\* followed by st, nd or rd when n ends in 1, 2 or 3 and is not 11, 12 or 13,
\* and by th otherwise; this is what the strftime helper puts in the place of
\* %O, whatever else the format holds.
C19_OrdinalSuffix ==
    /\ \A n \in 1..31 :
        /\ Len(ordinal(n)) = Len(Decimal(n)) + 2
        /\ SubSeq(ordinal(n), 1, Len(Decimal(n))) = Decimal(n)
        /\ SubSeq(ordinal(n), Len(Decimal(n)) + 1, Len(ordinal(n))) = Suffix(n)
    /\ formatted # NotFormatted =>
        LET day == Decimal(formatted.tm_mday) \o Suffix(formatted.tm_mday)
        IN  CASE formatted.fmt = <<"%", "O">> -> formatted.text = day
              [] formatted.fmt = <<"%", "O", " ", "o", "f", " ", "%", "B">> ->
                    IsPrefix(day \o <<" ", "o", "f", " ">>, formatted.text)
              [] formatted.fmt = <<"%", "B", " ", "%", "O">> ->
                    SubSeq(formatted.text, 3, Len(formatted.text)) = day
              [] OTHER -> ~Contains(formatted.text, <<"t", "h">>)

\* C19's case: the helper formatted the 12th of a month and the result reads
\* "12th".
C19_Witness ==
    /\ pc = "rendered"
    /\ formatted.fmt = <<"%", "O">> /\ formatted.tm_mday = 12
    /\ formatted.text = <<"1", "2", "t", "h">>

-----------------------------------------------------------------------------
(* C20 *)

\* The reference names an attribute of a module that can be imported.
Resolvable(function_name) ==
    /\ Len(function_name) = 2
    /\ <<function_name[1]>> \in DOMAIN Modules
    /\ function_name[2] \in Modules[<<function_name[1]>>]

Warnings ==
    {n \in 1..Len(stdout) :
        stdout[n].text \in {"Warning: Could not load Jinja function",
                            "Warning: Error loading Jinja config",
                            "Warning: Jinja config file not found"}}

\* C20: once main has built the environment, strftime is among its globals;
\* every entry of the function_map whose reference resolves is registered
\* under its name, every other entry is absent and a warning was printed; with
\* no configuration path strftime is the only global.
C20_EveryEntryHandled ==
    pc # "init" =>
        /\ "strftime" \in DOMAIN jinja_env
        /\ jinja_env["strftime"] = StrftimeHelper
        /\ config.path = None => DOMAIN jinja_env = {"strftime"}
        /\ \A n \in 1..Len(config.function_map) :
            LET entry == config.function_map[n]
            IN  IF Resolvable(entry.function_name)
                THEN /\ entry.name \in DOMAIN jinja_env
                     /\ jinja_env[entry.name] = entry.function_name
                ELSE /\ entry.name \notin DOMAIN jinja_env
                     /\ Warnings # {}

-----------------------------------------------------------------------------
(* C21 *)

\* The number of text boxes of the snapshot whose rendered text differs from
\* the extracted text.
RECURSIVE ChangedRecords(_)
ChangedRecords(k) ==
    IF k = 0 THEN 0
    ELSE ChangedRecords(k - 1) + Cardinality(ChangedBoxes(slides[k], data))

\* jinjify printed its closing line, which carries total_changes_made.
JinjifyReported ==
    /\ cmd = "jinjify" /\ pc = "done"
    /\ \E n \in 1..Len(stdout) :
        stdout[n].text = "Total text updates made" /\ stdout[n].run = run

\* C21: the total jinjify reports is the number of records of the fetched
\* deck whose rendered text differs from the original text.
C21_TotalIsChangedRecords ==
    JinjifyReported => total = ChangedRecords(Len(slides))

-----------------------------------------------------------------------------
(* C22 *)

\* Where in the snapshot the object a call was made for stands: the position
\* of its slide, and its position among the slide's page elements (0 for the
\* slide itself).
SlideOf(about) ==
    CHOOSE k \in 1..Len(slides) :
        \/ slides[k].objectId = about
        \/ \E n \in 1..Len(slides[k].pageElements) : slides[k].pageElements[n].objectId = about

ElementOf(about) ==
    IF slides[SlideOf(about)].objectId = about THEN 0
    ELSE CHOOSE n \in 1..Len(slides[SlideOf(about)].pageElements) :
            slides[SlideOf(about)].pageElements[n].objectId = about

Before(a, b) ==
    \/ SlideOf(a) < SlideOf(b)
    \/ SlideOf(a) = SlideOf(b) /\ ElementOf(a) <= ElementOf(b)

\* The calls of the current run of jinjify or imagify, in the order they were
\* issued.
RunCalls == SelectSeq(calls, LAMBDA c : c.run = run)

C22_InOrder ==
    (cmd \in {"jinjify", "imagify"}) =>
        /\ RunCalls # <<>>
        /\ RunCalls[1].api = "presentations.get"
        /\ \A n \in 2..Len(RunCalls) :
            /\ RunCalls[n].api # "presentations.get"
            /\ SlideOf(RunCalls[n].about) <= i + 1
            /\ n > 2 => Before(RunCalls[n - 1].about, RunCalls[n].about)
            /\ (cmd = "jinjify" /\ n > 2) =>
                    SlideOf(RunCalls[n - 1].about) < SlideOf(RunCalls[n].about)
            /\ cmd = "jinjify" =>
                LET slide == slides[SlideOf(RunCalls[n].about)]
                    changed == ChangedBoxes(slide, data)
                IN  /\ Len(RunCalls[n].requests) = Cardinality(changed)
                    /\ \A m \in 1..Len(RunCalls[n].requests) :
                        /\ RunCalls[n].requests[m].containsText
                             = TextOf(slide.pageElements[Nth(changed, m)])
                        /\ RunCalls[n].requests[m].replaceText
                             = render_jinja_in_string(
                                   TextOf(slide.pageElements[Nth(changed, m)]), data)
            /\ (cmd = "imagify" /\ RunCalls[n].api = BatchUpdate) =>
                LET slide == slides[SlideOf(RunCalls[n].about)]
                    el == slide.pageElements[ElementOf(RunCalls[n].about)]
                IN  /\ RunCalls[n].requests[1].pageObjectIds = <<slide.objectId>>
                    /\ RunCalls[n].requests[1].size = el.size
                    /\ RunCalls[n].requests[2].objectId = el.objectId

\* C22: jinjify and imagify fetch the deck once, as the first call of the
\* run, and never replace that snapshot during the run; every later call is
\* added at the end of the log, for a slide (and text box) that does not come
\* before the one of the call before it; the requests of a jinjify batch
\* follow the order of the slide's text boxes in the snapshot; all requests
\* are built from the snapshot.
C22_SequentialSourceOrder ==
    /\ []C22_InOrder
    /\ [][/\ IsPrefix(calls, calls')
           /\ (cmd \in {"jinjify", "imagify"} /\ run' = run) => slides' = slides]_vars

\* C22's case: jinjify sent a batch of two requests for each of two slides
\* and the deck is no longer what was fetched.
C22_Witness ==
    /\ cmd = "jinjify" /\ pc = "done" /\ run = 1 /\ Len(slides) = 2
    /\ Len(calls) = 3
    /\ Len(calls[2].requests) = 2 /\ calls[2].about = slides[1].objectId
    /\ Len(calls[3].requests) = 2 /\ calls[3].about = slides[2].objectId
    /\ calls[2].requests[1].containsText # calls[2].requests[2].containsText
    /\ calls[2].result = "ok" /\ deck[1] # slides[1]

-----------------------------------------------------------------------------
(* C23 *)

\* The batches of imagify the service accepted.
AcceptedBatches ==
    {n \in 1..Len(calls) : calls[n].api = BatchUpdate /\ calls[n].result = "ok"}

\* The text boxes of the snapshot that are no longer in the deck.
ReplacedBoxes == {p \in Boxes : ~OnDeck(Box(p).objectId)}

====
